---------------------------- MODULE Spec2Model ----------------------------
(***************************************************************************)
(* Model of LiveClient (src/client.py): the heartbeat loop, the task       *)
(* check loop and the watch-task executions they spawn, as cooperative     *)
(* asyncio tasks.  A step of a task runs from one await to the next; the   *)
(* outcome of the awaited call (browser, page, server) is chosen by the    *)
(* environment.  The shared state is the object's fields.                  *)
(***************************************************************************)
EXTENDS Integers, Sequences, FiniteSets, TLC

MaxTotal == 3       \* largest total_watch_time the server hands out
MaxFails == 2       \* the consecutive-failure counters saturate here
MaxExec == 2        \* execution activities that can be alive at once

VARIABLES
    is_running,     \* self.is_running
    current_task,   \* self.current_task: {} is None, {t} is the task t
    browser,        \* self.browser  (TRUE: an object, FALSE: None)
    context,        \* self.context
    page,           \* self.page
    hb,             \* heartbeat_loop: [pc, fails]; pc "sleep" is also "not started"
    tc,             \* task_check_loop: [pc, fails, last]
    exec            \* the execute_watch_task activities

vars == <<is_running, current_task, browser, context, page, hb, tc, exec>>

ExecIds == 1..MaxExec

(* the server's task ids are opaque; two of them tell tasks apart *)
TaskIds == {1, 2}

(* A task as the server sends it.  valid = FALSE is a task dict without    *)
(* the keys room_id / total_watch_time / watched_time (lines 368-370).     *)
(* The optional "cookie" key only decides whether set_cookies is awaited,  *)
(* whose result is discarded, so it is not kept.                           *)
Tasks ==
    { [id |-> i, total_watch_time |-> t, watched_time |-> w, valid |-> TRUE] :
         i \in TaskIds, t \in 0..MaxTotal, w \in 0..MaxTotal }

WellFormedTasks ==
    { t \in Tasks : t.watched_time <= t.total_watch_time }

MalformedTasks ==
    { [id |-> i, total_watch_time |-> 0, watched_time |-> 0, valid |-> FALSE] :
         i \in TaskIds }

ServerTasks == WellFormedTasks \cup MalformedTasks

NoTask == [id |-> 0, total_watch_time |-> 0, watched_time |-> 0, valid |-> FALSE]

progress_from_minute(minute, total_time) ==
    [num |-> minute * 100, den |-> total_time]

(* progress = ((minute + 1) / total_time) * 100, kept as an exact fraction *)
progress_percent(minute, total_time) ==
    [num |-> (minute + 1) * 100, den |-> total_time]

update_progress(task, minute) ==
    [task_id |-> task.id, watched_time |-> minute + 1,
     progress |-> progress_percent(minute, task.total_watch_time)]

error_report(task) ==
    [task_id |-> task.id, error_message |-> TRUE, screenshot_path |-> TRUE]

IdleExec ==
    [pc |-> "none", task |-> NoTask, minute |-> 0, iters |-> 0,
     progress |-> <<>>, errors |-> <<>>, outcome |-> "none",
     complete_log |-> FALSE, stopped |-> FALSE, closed |-> FALSE,
     navigated |-> FALSE, report_failed |-> FALSE]

NewExec(task) ==
    [IdleExec EXCEPT !.pc = "created", !.task = task]

Live(e) == exec[e].pc \notin {"none", "done", "cancelled"}

Active(e) == exec[e].pc \notin {"none", "created", "done", "cancelled"}

Init ==
    /\ is_running = TRUE
    /\ current_task = {}
    /\ browser = FALSE
    /\ context = FALSE
    /\ page = FALSE
    /\ hb = [pc |-> "sleep", fails |-> 0]
    /\ tc = [pc |-> "sleep", fails |-> 0, last |-> "none"]
    /\ exec = [e \in ExecIds |-> IdleExec]

Bump(n) == IF n < MaxFails THEN n + 1 ELSE n

(* a task that has returned or was cancelled: its frame is gone *)
EndedLoop(how) == [pc |-> how, fails |-> 0]

EndedCheck(how) == [pc |-> how, fails |-> 0, last |-> "none"]

EndedExec(how) == [IdleExec EXCEPT !.pc = how]

-----------------------------------------------------------------------------
(* heartbeat_loop *)

heartbeat_loop_cycle_ignores_flag ==
    /\ hb.pc = "sleep"
    /\ hb' = [hb EXCEPT !.pc = "post"]
    /\ UNCHANGED <<is_running, current_task, browser, context, page, tc, exec>>

(* the sleep ends (or the task starts): "while self.is_running" and, if   *)
(* it holds, the heartbeat request is sent                                 *)
heartbeat_loop_cycle ==
    /\ hb.pc = "sleep"
    /\ hb' = IF is_running THEN [hb EXCEPT !.pc = "post"] ELSE EndedLoop("exit")
    /\ UNCHANGED <<is_running, current_task, browser, context, page, tc, exec>>

heartbeat_loop_response_stops_on_failure ==
    /\ hb.pc = "post"
    /\ \E ok \in BOOLEAN :
         hb' = [pc |-> IF ok THEN "sleep" ELSE "exit",
                fails |-> IF ok THEN 0 ELSE Bump(hb.fails)]
    /\ UNCHANGED <<is_running, current_task, browser, context, page, tc, exec>>

heartbeat_loop_response ==
    /\ hb.pc = "post"
    /\ \E ok \in BOOLEAN :
         hb' = [pc |-> "sleep", fails |-> IF ok THEN 0 ELSE Bump(hb.fails)]
    /\ UNCHANGED <<is_running, current_task, browser, context, page, tc, exec>>

-----------------------------------------------------------------------------
(* task_check_loop *)

not_current_task_ignored == TRUE

not_current_task == current_task = {}

(* asyncio.create_task: the new activity takes the first free place *)
FreeExec == CHOOSE e \in ExecIds : ~Live(e) /\ \A f \in ExecIds : f < e => Live(f)

task_check_loop_cycle_awaits_execution ==
    /\ tc.pc = "sleep"
    /\ \A e \in ExecIds : ~Live(e)
    /\ tc' = IF ~is_running THEN EndedCheck("exit")
             ELSE [tc EXCEPT !.pc = IF not_current_task THEN "fetch" ELSE "sleep",
                             !.last = IF not_current_task THEN "fetch" ELSE "noop"]
    /\ UNCHANGED <<is_running, current_task, browser, context, page, hb, exec>>

(* the sleep ends (or the task starts): "while self.is_running", then    *)
(* "if not self.current_task" sends the fetch request, else sleep again    *)
task_check_loop_cycle ==
    /\ tc.pc = "sleep"
    /\ tc' = IF ~is_running THEN EndedCheck("exit")
             ELSE [tc EXCEPT !.pc = IF not_current_task THEN "fetch" ELSE "sleep",
                             !.last = IF not_current_task THEN "fetch" ELSE "noop"]
    /\ UNCHANGED <<is_running, current_task, browser, context, page, hb, exec>>

(* the response has code 0 and a task in "data" *)
task_check_loop_accept(task) ==
    /\ ~ \A e \in ExecIds : Live(e)
    /\ current_task' = {task}
    /\ exec' = [exec EXCEPT ![FreeExec] = NewExec(task)]
    /\ tc' = [tc EXCEPT !.pc = "sleep", !.fails = 0]

task_check_loop_response ==
    /\ tc.pc = "fetch"
    /\ \/ \E task \in ServerTasks : task_check_loop_accept(task)
       \/ \* code 0 without a task
          /\ tc' = [tc EXCEPT !.pc = "sleep", !.fails = 0]
          /\ UNCHANGED <<current_task, exec>>
       \/ \* transport failure, malformed body, or a code other than 0
          /\ tc' = [tc EXCEPT !.pc = "sleep", !.fails = Bump(tc.fails)]
          /\ UNCHANGED <<current_task, exec>>
    /\ UNCHANGED <<is_running, browser, context, page, hb>>

-----------------------------------------------------------------------------
(* the Viewer Session calls, as functions of the session fields and of the *)
(* outcome the browser produces                                            *)

Session == [browser |-> browser, context |-> context, page |-> page]

InitOutcomes == {"ok", "fail_launch", "fail_context", "fail_route"}

(* init_browser is called only "if not self.browser" *)
InitChoices == IF browser THEN {"ok"} ELSE InitOutcomes

init_browser(s, o) ==
    CASE o = "ok" ->
           [s |-> [s EXCEPT !.browser = TRUE, !.context = TRUE], ok |-> TRUE]
      [] o = "fail_launch" ->
           [s |-> s, ok |-> FALSE]
      [] o = "fail_context" ->
           [s |-> [s EXCEPT !.browser = TRUE], ok |-> FALSE]
      [] o = "fail_route" ->
           [s |-> [s EXCEPT !.browser = TRUE, !.context = TRUE], ok |-> FALSE]

OpenOutcomes == {"ok", "fail_new_page", "fail_goto", "fail_player"}

watch_live_room(s, io, o) ==
    LET i == IF s.browser THEN [s |-> s, ok |-> TRUE] ELSE init_browser(s, io)
    IN  IF ~i.ok THEN [s |-> i.s, ok |-> FALSE]
        ELSE IF ~i.s.context \/ o = "fail_new_page" THEN [s |-> i.s, ok |-> FALSE]
        ELSE [s |-> [i.s EXCEPT !.page = TRUE], ok |-> (o = "ok")]

CloseOutcomes == {"ok", "fail_page", "fail_context", "fail_browser"}

close_live(s, o) ==
    IF s.page /\ o = "fail_page" THEN s
    ELSE LET s1 == [s EXCEPT !.page = FALSE]
         IN  IF s1.context /\ o = "fail_context" THEN s1
             ELSE LET s2 == [s1 EXCEPT !.context = FALSE]
                  IN  IF s2.browser /\ o = "fail_browser" THEN s2
                      ELSE [s2 EXCEPT !.browser = FALSE]

(* handle_stream_error posts the report only after the screenshot is taken *)
handle_stream_error_posts(s, screenshot_ok) == s.page /\ screenshot_ok

(* watch_live_room gets as far as page.goto *)
watch_live_room_navigates(s, io, o) ==
    LET i == IF s.browser THEN [s |-> s, ok |-> TRUE] ELSE init_browser(s, io)
    IN  i.ok /\ i.s.context /\ o # "fail_new_page"

SetSession(s) ==
    /\ browser' = s.browser
    /\ context' = s.context
    /\ page' = s.page

-----------------------------------------------------------------------------
(* execute_watch_task *)

execute_watch_task_start_reports_failure(e) ==
    /\ exec[e].pc = "created"
    /\ \E o \in InitChoices :
         LET r == IF browser THEN [s |-> Session, ok |-> TRUE]
                  ELSE init_browser(Session, o)
         IN  /\ SetSession(r.s)
             /\ exec' = [exec EXCEPT ![e].pc = IF r.ok THEN "setup" ELSE "done",
                                     ![e].outcome =
                                         IF r.ok THEN "none" ELSE "init_failed",
                                     ![e].errors =
                                         IF r.ok THEN @
                                         ELSE Append(@, error_report(exec[e].task))]
    /\ UNCHANGED <<is_running, current_task, hb, tc>>

execute_watch_task_start(e) ==
    /\ exec[e].pc = "created"
    /\ \E o \in InitChoices :
         LET r == IF browser THEN [s |-> Session, ok |-> TRUE]
                  ELSE init_browser(Session, o)
         IN  /\ SetSession(r.s)
             /\ exec' = [exec EXCEPT ![e].pc = IF r.ok THEN "setup" ELSE "done",
                                     ![e].outcome =
                                         IF r.ok THEN "none" ELSE "init_failed"]
    /\ UNCHANGED <<is_running, current_task, hb, tc>>

execute_watch_task_setup(e) ==
    /\ exec[e].pc = "setup"
    /\ exec' = [exec EXCEPT ![e].pc = IF exec[e].task.valid THEN "open" ELSE "uncaught",
                            ![e].minute = exec[e].task.watched_time]
    /\ UNCHANGED <<is_running, current_task, browser, context, page, hb, tc>>

execute_watch_task_open_keeps_slot(e) ==
    /\ exec[e].pc = "open"
    /\ \E io \in InitChoices, o \in OpenOutcomes :
         LET r == watch_live_room(Session, io, o)
         IN  /\ SetSession(r.s)
             /\ exec' = [exec EXCEPT
                    ![e].pc = IF r.ok THEN "loop" ELSE "done",
                    ![e].outcome = IF r.ok THEN "none" ELSE "open_failed",
                    ![e].navigated = watch_live_room_navigates(Session, io, o)]
    /\ UNCHANGED <<is_running, current_task, hb, tc>>

execute_watch_task_open(e) ==
    /\ exec[e].pc = "open"
    /\ \E io \in InitChoices, o \in OpenOutcomes :
         LET r == watch_live_room(Session, io, o)
         IN  /\ SetSession(r.s)
             /\ IF r.ok
                THEN /\ exec' = [exec EXCEPT ![e].pc = "loop",
                                             ![e].navigated = TRUE]
                     /\ UNCHANGED current_task
                ELSE /\ exec' = [exec EXCEPT
                            ![e].pc = "done",
                            ![e].outcome = "open_failed",
                            ![e].navigated =
                                watch_live_room_navigates(Session, io, o)]
                     /\ current_task' = {}
    /\ UNCHANGED <<is_running, hb, tc>>

loop_breaks_never == FALSE

loop_breaks == ~is_running

execute_watch_task_loop(e) ==
    /\ exec[e].pc = "loop"
    /\ exec' = [exec EXCEPT
          ![e].pc = IF exec[e].minute >= exec[e].task.total_watch_time THEN "close"
                    ELSE IF loop_breaks THEN "close"
                    ELSE "mount",
          ![e].stopped = exec[e].minute < exec[e].task.total_watch_time /\ loop_breaks,
          ![e].iters = IF exec[e].minute < exec[e].task.total_watch_time /\ ~loop_breaks
                       THEN exec[e].iters + 1 ELSE exec[e].iters]
    /\ UNCHANGED <<is_running, current_task, browser, context, page, hb, tc>>

execute_watch_task_check(e) ==
    /\ exec[e].pc = "mount"
    /\ \E alive \in BOOLEAN :
         exec' = [exec EXCEPT ![e].pc = IF ~page \/ alive THEN "sleep" ELSE "stream_err"]
    /\ UNCHANGED <<is_running, current_task, browser, context, page, hb, tc>>

execute_watch_task_sleep(e) ==
    /\ exec[e].pc = "sleep"
    /\ exec' = [exec EXCEPT
          ![e].pc = "report",
          ![e].progress = Append(@, update_progress(exec[e].task, exec[e].minute))]
    /\ UNCHANGED <<is_running, current_task, browser, context, page, hb, tc>>

execute_watch_task_report_aborts_on_failure(e) ==
    /\ exec[e].pc = "report"
    /\ \E success \in BOOLEAN :
         exec' = [exec EXCEPT ![e].pc = IF success THEN "loop" ELSE "uncaught",
                              ![e].minute = IF success THEN @ + 1 ELSE @,
                              ![e].report_failed = @ \/ ~success]
    /\ UNCHANGED <<is_running, current_task, browser, context, page, hb, tc>>

execute_watch_task_report_repeats_minute(e) ==
    /\ exec[e].pc = "report"
    /\ \E success \in BOOLEAN :
         exec' = [exec EXCEPT ![e].pc = "loop",
                              ![e].report_failed = @ \/ ~success]
    /\ UNCHANGED <<is_running, current_task, browser, context, page, hb, tc>>

(* update_progress returns: its except absorbs a failed request, and the  *)
(* for loop takes the next minute                                          *)
execute_watch_task_report(e) ==
    /\ exec[e].pc = "report"
    /\ \E success \in BOOLEAN :
         exec' = [exec EXCEPT ![e].pc = "loop",
                              ![e].minute = @ + 1,
                              ![e].report_failed = @ \/ ~success]
    /\ UNCHANGED <<is_running, current_task, browser, context, page, hb, tc>>

execute_watch_task_close(e) ==
    /\ exec[e].pc = "close"
    /\ \E o \in CloseOutcomes : SetSession(close_live(Session, o))
    /\ exec' = [exec EXCEPT ![e].pc = "done",
                            ![e].closed = TRUE,
                            ![e].complete_log = is_running,
                            ![e].outcome = IF is_running THEN "completed" ELSE "stopped"]
    /\ current_task' = IF is_running THEN {} ELSE current_task
    /\ UNCHANGED <<is_running, hb, tc>>

execute_watch_task_error_clears_slot_first(e) ==
    /\ exec[e].pc \in {"stream_err", "uncaught"}
    /\ \E screenshot_ok \in BOOLEAN :
         exec' = [exec EXCEPT
            ![e].pc = "err_close",
            ![e].outcome = exec[e].pc,
            ![e].errors = IF handle_stream_error_posts(Session, screenshot_ok)
                          THEN Append(@, error_report(exec[e].task)) ELSE @]
    /\ current_task' = {}
    /\ UNCHANGED <<is_running, browser, context, page, hb, tc>>

execute_watch_task_error(e) ==
    /\ exec[e].pc \in {"stream_err", "uncaught"}
    /\ \E screenshot_ok \in BOOLEAN :
         exec' = [exec EXCEPT
            ![e].pc = "err_close",
            ![e].outcome = exec[e].pc,
            ![e].errors = IF handle_stream_error_posts(Session, screenshot_ok)
                          THEN Append(@, error_report(exec[e].task)) ELSE @]
    /\ UNCHANGED <<is_running, current_task, browser, context, page, hb, tc>>

execute_watch_task_error_close_falls_through(e) ==
    /\ exec[e].pc = "err_close"
    /\ \E o \in CloseOutcomes : SetSession(close_live(Session, o))
    /\ exec' = [exec EXCEPT
          ![e].pc = IF exec[e].outcome = "stream_err" THEN "uncaught" ELSE "done",
          ![e].closed = TRUE]
    /\ current_task' = IF exec[e].outcome = "stream_err" THEN current_task ELSE {}
    /\ UNCHANGED <<is_running, hb, tc>>

execute_watch_task_error_close(e) ==
    /\ exec[e].pc = "err_close"
    /\ \E o \in CloseOutcomes : SetSession(close_live(Session, o))
    /\ exec' = [exec EXCEPT ![e].pc = "done", ![e].closed = TRUE]
    /\ current_task' = {}
    /\ UNCHANGED <<is_running, hb, tc>>

-----------------------------------------------------------------------------
(* stopping *)

CancelAll ==
    /\ hb' = IF hb.pc = "exit" THEN hb ELSE EndedLoop("cancelled")
    /\ tc' = IF tc.pc = "exit" THEN tc ELSE EndedCheck("cancelled")
    /\ exec' = [e \in ExecIds |->
                  IF Live(e) THEN EndedExec("cancelled") ELSE exec[e]]

SomethingAlive ==
    ~ /\ hb.pc \in {"exit", "cancelled"}
      /\ tc.pc \in {"exit", "cancelled"}
      /\ \A e \in ExecIds : ~Live(e)

(* the flag is a public field: a caller of the object clears it *)
clear_is_running ==
    /\ is_running
    /\ is_running' = FALSE
    /\ UNCHANGED <<current_task, browser, context, page, hb, tc, exec>>

(* run(), on KeyboardInterrupt: clear the flag and cancel self.tasks.  A   *)
(* cancelled task gets CancelledError at the await it is suspended in,     *)
(* which no "except Exception" of the module catches.                      *)
run_interrupted ==
    /\ SomethingAlive
    /\ ~(hb.pc = "exit" /\ tc.pc = "exit")
    /\ is_running' = FALSE
    /\ CancelAll
    /\ UNCHANGED <<current_task, browser, context, page>>

(* both loops of the gather have returned: run() and main() return, and    *)
(* asyncio.run cancels the executions that are still alive                 *)
run_returns ==
    /\ hb.pc = "exit"
    /\ tc.pc = "exit"
    /\ ~ \A e \in ExecIds : ~Live(e)
    /\ CancelAll
    /\ UNCHANGED <<is_running, current_task, browser, context, page>>

Next ==
    \/ heartbeat_loop_cycle
    \/ heartbeat_loop_response
    \/ task_check_loop_cycle
    \/ task_check_loop_response
    \/ \E e \in ExecIds : execute_watch_task_start(e)
    \/ \E e \in ExecIds : execute_watch_task_setup(e)
    \/ \E e \in ExecIds : execute_watch_task_open(e)
    \/ \E e \in ExecIds : execute_watch_task_loop(e)
    \/ \E e \in ExecIds : execute_watch_task_check(e)
    \/ \E e \in ExecIds : execute_watch_task_sleep(e)
    \/ \E e \in ExecIds : execute_watch_task_report(e)
    \/ \E e \in ExecIds : execute_watch_task_close(e)
    \/ \E e \in ExecIds : execute_watch_task_error(e)
    \/ \E e \in ExecIds : execute_watch_task_error_close(e)
    \/ clear_is_running
    \/ run_interrupted
    \/ run_returns

Spec == Init /\ [][Next]_vars

(* The event loop resumes every task whose awaited call has returned, and  *)
(* every awaited call returns: a sleep ends, a request of self.client has  *)
(* a 30 s timeout.  Stopping is left to the environment.                   *)
LoopFairness ==
    /\ WF_vars(heartbeat_loop_cycle) /\ WF_vars(heartbeat_loop_response)
    /\ WF_vars(task_check_loop_cycle) /\ WF_vars(task_check_loop_response)

FairSpec == Spec /\ LoopFairness

(* one step of an execution, whichever it is *)
execute_watch_task_step(e) ==
    \/ execute_watch_task_start(e)
    \/ execute_watch_task_setup(e)
    \/ execute_watch_task_open(e)
    \/ execute_watch_task_loop(e)
    \/ execute_watch_task_check(e)
    \/ execute_watch_task_sleep(e)
    \/ execute_watch_task_report(e)
    \/ execute_watch_task_close(e)
    \/ execute_watch_task_error(e)
    \/ execute_watch_task_error_close(e)

(* The event loop resumes a suspended execution once the call it awaits    *)
(* has returned, and every such call returns: the sleep ends, the browser  *)
(* calls and the requests have timeouts.                                   *)
ExecFairness == WF_vars(\E e \in ExecIds : execute_watch_task_step(e))

ExecFairSpec == Spec /\ ExecFairness

-----------------------------------------------------------------------------
(* Properties *)

LiveExecs == {e \in ExecIds : Live(e)}

Finished(e) == exec[e].pc = "done"

(* C1: at most one execution is alive at any time, and while it is alive   *)
(* the current-task slot holds its task: the slot is filled when it is     *)
(* spawned and emptied only by its last step.                              *)
C1_SingleExecution ==
    /\ Cardinality(LiveExecs) <= 1
    /\ \A e \in ExecIds : Live(e) => current_task = {exec[e].task}

(* an execution is in its one-minute sleep and the check loop, after a     *)
(* cycle that found the slot occupied, is about to run the next one        *)
C1_Witness ==
    \E e \in ExecIds :
        exec[e].pc = "sleep" /\ tc.pc = "sleep" /\ tc.last = "noop" /\ is_running

(* C2: a fetch request is sent only from a cycle that finds the slot empty *)
(* and no execution alive, none is in flight while an execution is alive,  *)
(* and a cycle that finds the slot occupied only goes to sleep.            *)
C2_NoFetchWhileOccupied ==
    [][ /\ (tc'.pc = "fetch" /\ tc.pc # "fetch")
            => (current_task = {} /\ LiveExecs = {})
        /\ (tc'.pc = "fetch") => (\A e \in ExecIds : ~Live(e)')
        /\ (tc.pc = "sleep" /\ current_task # {} /\ tc' # tc /\ tc'.pc # "cancelled")
            => /\ tc'.pc \in {"sleep", "exit"}
               /\ tc'.fails = tc.fails
               /\ UNCHANGED <<is_running, current_task, browser, context, page,
                              hb, exec>>
      ]_vars

(* the check loop sleeps after a cycle it skipped because an execution     *)
(* holds the slot                                                          *)
C2_Witness ==
    /\ tc.pc = "sleep"
    /\ tc.last = "noop"
    /\ \E e \in ExecIds : Active(e) /\ current_task = {exec[e].task}

(* C3: an execution that ran to natural completion (no failure, flag set)  *)
(* sent exactly T - W progress reports, for the minutes W..T-1 in order,   *)
(* each with watched minutes m+1 and progress (m+1)/T*100, strictly        *)
(* increasing and 100 only in the last; no error report; slot empty.       *)
C3_ProgressReports ==
    \A e \in ExecIds :
        (Finished(e) /\ exec[e].outcome = "completed") =>
            LET T == exec[e].task.total_watch_time
                W == exec[e].task.watched_time
                log == exec[e].progress
            IN  /\ Len(log) = T - W
                /\ \A i \in 1..Len(log) :
                     /\ log[i].task_id = exec[e].task.id
                     /\ log[i].watched_time = W + i
                     /\ log[i].progress.num * T = (W + i) * 100 * log[i].progress.den
                     /\ (log[i].progress.num = 100 * log[i].progress.den)
                            <=> (i = Len(log))
                     /\ i > 1 => log[i-1].progress.num * log[i].progress.den
                                   < log[i].progress.num * log[i-1].progress.den
                /\ exec[e].errors = <<>>
                /\ current_task = {}

(* the task {total_watch_time: 3, watched_time: 0} completed with three    *)
(* reports                                                                 *)
C3_Witness ==
    \E e \in ExecIds :
        /\ Finished(e) /\ exec[e].outcome = "completed"
        /\ exec[e].task.total_watch_time = 3 /\ exec[e].task.watched_time = 0
        /\ Len(exec[e].progress) = 3

(* C4: an execution that ended on a failed player-mount check sent exactly *)
(* one error report, with its task id, the message and the snapshot path,  *)
(* sent progress reports only for the minutes before the failure, called   *)
(* close_live and left the slot empty.                                     *)
C4_StreamErrorReported ==
    \A e \in ExecIds :
        (Finished(e) /\ exec[e].outcome = "stream_err") =>
            /\ Len(exec[e].errors) = 1
            /\ exec[e].errors[1].task_id = exec[e].task.id
            /\ exec[e].errors[1].error_message
            /\ exec[e].errors[1].screenshot_path
            /\ Len(exec[e].progress) = exec[e].minute - exec[e].task.watched_time
            /\ exec[e].closed
            /\ current_task = {}

(* C5: an execution of a task with watched_time = total_watch_time has     *)
(* returned: no minute iteration, no progress report, no error report,     *)
(* close_live called, slot empty.                                          *)
C5_AlreadyWatched ==
    \A e \in ExecIds :
        (/\ Finished(e)
         /\ exec[e].task.valid
         /\ exec[e].task.watched_time = exec[e].task.total_watch_time) =>
            /\ exec[e].iters = 0
            /\ exec[e].progress = <<>>
            /\ exec[e].errors = <<>>
            /\ exec[e].closed
            /\ current_task = {}

(* C6: whenever an execution has returned and the running flag is set, the *)
(* slot is empty (so the next cycle of the check loop fetches again).      *)
C6_SlotFreedOnReturn ==
    \A e \in ExecIds : (Finished(e) /\ is_running) => current_task = {}

(* C7: an execution that returned because init_browser failed left the     *)
(* slot empty.                                                             *)
C7_InitFailureClearsSlot ==
    \A e \in ExecIds :
        (Finished(e) /\ exec[e].outcome = "init_failed") => current_task = {}

(* C8: an execution that returned because watch_live_room failed left the  *)
(* slot empty and sent no error report and no progress report and ran no   *)
(* minute iteration.                                                       *)
C8_OpenFailure ==
    \A e \in ExecIds :
        (Finished(e) /\ exec[e].outcome = "open_failed") =>
            /\ current_task = {}
            /\ exec[e].errors = <<>>
            /\ exec[e].progress = <<>>
            /\ exec[e].iters = 0

(* an execution has returned from a failed open, the slot is empty and the *)
(* check loop has sent its next fetch                                      *)
C8_Witness ==
    \E e \in ExecIds :
        Finished(e) /\ exec[e].outcome = "open_failed" /\ tc.pc = "fetch"

LoopGone(l) == ~is_running \/ l.pc = "cancelled"

(* C9: after any number of consecutive failed requests, a loop whose flag  *)
(* is set and which is not cancelled is asleep or in its next cycle, never *)
(* ended, and it goes on to send the next request.                         *)
C9_LoopsSurviveFailures ==
    /\ [](hb.fails >= 1 /\ hb.pc # "post" => <>(hb.pc = "post" \/ LoopGone(hb)))
    /\ [](tc.fails >= 1 /\ tc.pc # "fetch" => <>(tc.pc = "fetch" \/ LoopGone(tc)))

(* both loops are in the cycle that follows MaxFails consecutive failures  *)
C9_Witness ==
    /\ hb.fails = MaxFails /\ hb.pc = "post"
    /\ tc.fails = MaxFails /\ tc.pc = "fetch"
    /\ is_running

(* C10: once the flag is cleared no execution starts a minute iteration    *)
(* and none logs "task complete"; at the top of the loop it leaves for     *)
(* close_live; inside an iteration it goes on with the iteration's next    *)
(* step (unless the activity is cancelled).                                *)
C10_FlagStopsWatchLoop ==
    [][ \A e \in ExecIds :
          ~is_running =>
            /\ exec'[e].iters <= exec[e].iters
            /\ exec'[e].complete_log => exec[e].complete_log
            /\ (exec[e].pc = "loop" /\ exec'[e].pc # "loop")
                 => exec'[e].pc \in {"close", "cancelled"}
            /\ (exec[e].pc = "mount" /\ exec'[e].pc # "mount")
                 => exec'[e].pc \in {"sleep", "stream_err", "cancelled"}
            /\ (exec[e].pc = "sleep" /\ exec'[e].pc # "sleep")
                 => \/ exec'[e].pc = "cancelled"
                    \/ /\ exec'[e].pc = "report"
                       /\ Len(exec'[e].progress) = Len(exec[e].progress) + 1
            /\ (exec[e].pc = "report" /\ exec'[e].pc # "report")
                 => exec'[e].pc \in {"loop", "cancelled"}
      ]_vars

(* the flag was cleared during an iteration, whose report was still sent,  *)
(* and the execution left the loop at its top with minutes still to watch  *)
C10_Witness ==
    \E e \in ExecIds :
        /\ Finished(e) /\ exec[e].stopped /\ ~exec[e].complete_log
        /\ exec[e].iters >= 1
        /\ Len(exec[e].progress) = exec[e].iters
        /\ exec[e].minute < exec[e].task.total_watch_time

(* C11: an execution that left the watch loop, at its end or on the        *)
(* cleared flag, has called close_live and left the slot empty.            *)
C11_LoopExitClearsSlot ==
    \A e \in ExecIds :
        (Finished(e) /\ exec[e].outcome \in {"completed", "stopped"}) =>
            /\ exec[e].closed
            /\ current_task = {}

(* C12: an execution that ended in the catch-all handler has sent one      *)
(* error report with its task id, the message and the snapshot path, has   *)
(* called close_live and left the slot empty.                              *)
C12_UncaughtFailureReported ==
    \A e \in ExecIds :
        (Finished(e) /\ exec[e].outcome = "uncaught") =>
            /\ Len(exec[e].errors) = 1
            /\ exec[e].errors[1].task_id = exec[e].task.id
            /\ exec[e].errors[1].error_message
            /\ exec[e].errors[1].screenshot_path
            /\ exec[e].closed
            /\ current_task = {}

NoSession == ~browser /\ ~context /\ ~page

(* C13: no browser, context or page is left once an execution has ended,   *)
(* and none is there when an execution is created.                         *)
C13_SessionPerExecution ==
    \A e \in ExecIds :
        exec[e].pc \in {"created", "done"} => NoSession

(* C14: an execution that ended because init_browser failed has sent no    *)
(* progress report and no error report, has not navigated and has run no   *)
(* minute iteration.                                                       *)
C14_InitFailureIsSilent ==
    \A e \in ExecIds :
        exec[e].outcome = "init_failed" =>
            /\ exec[e].pc \in {"done", "cancelled"}
            /\ exec[e].progress = <<>>
            /\ exec[e].errors = <<>>
            /\ ~exec[e].navigated
            /\ exec[e].iters = 0
            /\ ~page

C14_Witness ==
    \E e \in ExecIds :
        /\ Finished(e)
        /\ exec[e].outcome = "init_failed"
        /\ browser
        /\ ~context

(* C15: the step that receives the answer to a progress report goes on to  *)
(* the next minute whether the report succeeded or failed, and a completed *)
(* execution has run one iteration per remaining minute even when reports  *)
(* failed.                                                                 *)
C15_ReportStep ==
    \A e \in ExecIds :
        (exec[e].pc = "report" /\ exec'[e] # exec[e]) =>
            \/ exec'[e].pc = "cancelled"
            \/ /\ exec'[e].pc = "loop"
               /\ exec'[e].minute = exec[e].minute + 1
               /\ exec'[e].errors = exec[e].errors
               /\ exec'[e].outcome = exec[e].outcome

C15_Iterations ==
    \A e \in ExecIds :
        (Finished(e) /\ exec[e].outcome = "completed") =>
            /\ exec[e].iters =
                   exec[e].task.total_watch_time - exec[e].task.watched_time
            /\ Len(exec[e].progress) = exec[e].iters
            /\ exec[e].errors = <<>>

C15_FailedReportDoesNotAbort == [][C15_ReportStep]_vars /\ []C15_Iterations

C15_Witness ==
    \E e \in ExecIds :
        /\ Finished(e)
        /\ exec[e].outcome = "completed"
        /\ exec[e].report_failed
        /\ exec[e].iters >= 2

(* C16: while an execution is under way and the flag is set, the task      *)
(* check loop is not held up: its next cycle can run and is a cycle that   *)
(* sends nothing; and the heartbeat loop can send its next heartbeat and   *)
(* receive the answer.                                                     *)
C16_LoopsRunDuringExecution ==
    \A e \in ExecIds :
        (Active(e) /\ is_running) =>
            /\ tc.pc = "sleep"
            /\ ENABLED (task_check_loop_cycle /\ tc'.pc = "sleep" /\ tc'.last = "noop")
            /\ hb.pc \in {"sleep", "post"}
            /\ hb.pc = "sleep" => ENABLED (heartbeat_loop_cycle /\ hb'.pc = "post")
            /\ hb.pc = "post" => ENABLED heartbeat_loop_response

C16_Witness ==
    \E e \in ExecIds :
        /\ exec[e].pc = "report"
        /\ exec[e].iters >= 2
        /\ tc.last = "noop"
        /\ hb.pc = "post"
        /\ is_running

(* C17: with the flag cleared no heartbeat request and no fetch request is *)
(* started; a loop that ends its sleep exits, and a loop with a request in *)
(* flight gets its answer and goes to sleep (unless the activity is        *)
(* cancelled).                                                             *)
C17_LoopsExitOnFlag ==
    [][ ~is_running =>
          /\ hb'.pc = "post" => hb.pc = "post"
          /\ tc'.pc = "fetch" => tc.pc = "fetch"
          /\ (hb.pc = "sleep" /\ hb' # hb) => hb'.pc \in {"exit", "cancelled"}
          /\ (tc.pc = "sleep" /\ tc' # tc) => tc'.pc \in {"exit", "cancelled"}
          /\ (hb.pc = "post" /\ hb' # hb) => hb'.pc \in {"sleep", "cancelled"}
          /\ (tc.pc = "fetch" /\ tc' # tc) => tc'.pc \in {"sleep", "cancelled"}
      ]_vars

C17_Witness ==
    /\ ~is_running
    /\ hb.pc = "exit"
    /\ tc.pc = "exit"
    /\ current_task = {}
    /\ \E e \in ExecIds : Finished(e) /\ exec[e].outcome = "completed"

(* C18: with the flag cleared no task is written into the slot and no      *)
(* execution is created.                                                   *)
C18_NoAcceptAfterStop ==
    [][ ~is_running =>
          /\ current_task' \subseteq current_task
          /\ \A e \in ExecIds : exec'[e].pc = "created" => exec[e].pc = "created"
      ]_vars

(* C19: an execution sends at most one error report, and only when it      *)
(* ended in the stream-error handler or in the catch-all handler; one that *)
(* completed, was stopped by the flag, or failed to initialise or to open  *)
(* the room has none.                                                      *)
C19_AtMostOneErrorReport ==
    \A e \in ExecIds :
        /\ Len(exec[e].errors) <= 1
        /\ exec[e].errors # <<>> =>
               /\ exec[e].outcome \in {"stream_err", "uncaught"}
               /\ exec[e].errors[1].task_id = exec[e].task.id
               /\ ~exec[e].complete_log
        /\ exec[e].outcome \in {"completed", "stopped", "init_failed", "open_failed"} =>
               exec[e].errors = <<>>

C19_Witness ==
    \E e \in ExecIds :
        /\ Finished(e)
        /\ exec[e].outcome = "stream_err"
        /\ Len(exec[e].errors) = 1
        /\ Len(exec[e].progress) >= 1

C20_IterationBound ==
    \A e \in ExecIds :
        exec[e].iters <= exec[e].task.total_watch_time - exec[e].task.watched_time

(* C20: with the executions' steps scheduled fairly, an execution created  *)
(* for an accepted task returns unless the flag is cleared first, and it   *)
(* never runs more than total_watch_time - watched_time iterations.        *)
C20_ExecutionTerminates ==
    /\ []C20_IterationBound
    /\ (\E e \in ExecIds : Live(e)) ~> ((\A e \in ExecIds : ~Live(e)) \/ ~is_running)

C20_Witness ==
    \E e \in ExecIds :
        /\ Finished(e)
        /\ is_running
        /\ exec[e].iters = MaxTotal
        /\ exec[e].task.watched_time = 0
=============================================================================
